---- MODULE Spec2Model ----
(***************************************************************************)
(* The HTTP gateway of src/server.py: POST /transcribe (ingestion of a     *)
(* multipart or JSON+base64 upload, conversion by the external tool,       *)
(* upload to the speech-to-text backend, cleanup of the two temporary      *)
(* files), POST /ask-ollama and GET /health.                               *)
(*                                                                         *)
(* Every request is handled by one execution context (a slot of Req); the  *)
(* contexts share only the temporary directory, modelled by fs.            *)
(***************************************************************************)
EXTENDS Integers, Sequences, FiniteSets, TLC

\* ------------------------------------------------------------------ bounds

\* Number of requests the server handles (concurrently) in Spec.
NumReq == 2
\* Number of distinct random names tempfile can draw for each suffix.
NumNames == 2
\* Longest audio byte string of a request in SpecIngest.
MaxLen == 2
\* Longest transcript text the backend returns in SpecBackend.
MaxText == 3

Req == 1..NumReq

\* ------------------------------------------------------------- sequences

RECURSIVE SeqsUpTo(_, _)
SeqsUpTo(S, n) ==
    IF n = 0 THEN {<<>>}
    ELSE LET shorter == SeqsUpTo(S, n - 1)
         IN  shorter \cup {Append(s, x) : s \in {t \in shorter : Len(t) = n - 1}, x \in S}

\* ----------------------------------------------------------------- base64
\* A base64 text is a sequence of symbols: 0..63 are the characters of the
\* alphabet (by their value), Pad is "=", Junk is a character outside the
\* alphabet (a line break, "!").
Pad == 64
Junk == 65

\* base64.b64encode, the encoding a client applies to its audio bytes.
RECURSIVE B64Encode(_)
B64Encode(bs) ==
    IF Len(bs) = 0 THEN <<>>
    ELSE IF Len(bs) = 1 THEN
        <<bs[1] \div 4, (bs[1] % 4) * 16, Pad, Pad>>
    ELSE IF Len(bs) = 2 THEN
        <<bs[1] \div 4, (bs[1] % 4) * 16 + bs[2] \div 16, (bs[2] % 16) * 4, Pad>>
    ELSE
        <<bs[1] \div 4, (bs[1] % 4) * 16 + bs[2] \div 16,
          (bs[2] % 16) * 4 + bs[3] \div 64, bs[3] % 64>>
        \o B64Encode(SubSeq(bs, 4, Len(bs)))

\* binascii.a2b_base64 as base64.b64decode(s) calls it (validate=False):
\* characters outside the alphabet are skipped, "=" ends the data once the
\* quad is padded out, and data that stops inside a quad is an error.
\* Result: [ok |-> TRUE, bytes |-> ...] or [ok |-> FALSE, bytes |-> <<>>].
RECURSIVE A2bBase64(_, _, _, _, _, _)
A2bBase64(s, i, quad_pos, leftchar, pads, out) ==
    IF i > Len(s) THEN
        IF quad_pos # 0 THEN [ok |-> FALSE, bytes |-> <<>>]
        ELSE [ok |-> TRUE, bytes |-> out]
    ELSE IF s[i] = Pad THEN
        IF quad_pos >= 2 /\ quad_pos + pads + 1 >= 4
        THEN [ok |-> TRUE, bytes |-> out]
        ELSE A2bBase64(s, i + 1, quad_pos, leftchar,
                       IF quad_pos >= 2 THEN pads + 1 ELSE pads, out)
    ELSE IF s[i] > Pad THEN
        A2bBase64(s, i + 1, quad_pos, leftchar, pads, out)
    ELSE IF quad_pos = 0 THEN
        A2bBase64(s, i + 1, 1, s[i], 0, out)
    ELSE IF quad_pos = 1 THEN
        A2bBase64(s, i + 1, 2, s[i] % 16, 0,
                  Append(out, leftchar * 4 + s[i] \div 16))
    ELSE IF quad_pos = 2 THEN
        A2bBase64(s, i + 1, 3, s[i] % 4, 0,
                  Append(out, leftchar * 16 + s[i] \div 4))
    ELSE
        A2bBase64(s, i + 1, 0, 0, 0, Append(out, leftchar * 64 + s[i]))

\* A decoder that takes the first two characters of every quad only: the
\* second and third byte of a group are lost.
B64DecodeFirstByteOnly(v) ==
    IF v.t # "str" THEN [ok |-> FALSE, bytes |-> <<>>]
    ELSE LET d == A2bBase64(v.s, 1, 0, 0, 0, <<>>)
         IN  [ok |-> d.ok,
              bytes |-> IF Len(d.bytes) > 1 THEN SubSeq(d.bytes, 1, 1) ELSE d.bytes]

\* base64.b64decode(data['audio_data']) of line 82 on a JSON value v:
\* a str is encoded to ASCII (ValueError otherwise) and decoded; a list or
\* an object is no bytes-like object (TypeError).
B64Decode(v) ==
    IF v.t = "str" THEN A2bBase64(v.s, 1, 0, 0, 0, <<>>)
    ELSE [ok |-> FALSE, bytes |-> <<>>]

\* ------------------------------------------------------------------ strip
\* str.isspace of a character of a transcript.
IsSpace(c) == c \in {" ", "\n", "\t"}

RECURSIVE LStrip(_)
LStrip(s) ==
    IF Len(s) > 0 /\ IsSpace(s[1]) THEN LStrip(SubSeq(s, 2, Len(s))) ELSE s

RECURSIVE RStrip(_)
RStrip(s) ==
    IF Len(s) > 0 /\ IsSpace(s[Len(s)]) THEN RStrip(SubSeq(s, 1, Len(s) - 1)) ELSE s

\* str.lstrip instead of str.strip: trailing white space stays.
StripLeftOnly(s) == LStrip(s)

\* str.strip() of line 119.
Strip(s) == RStrip(LStrip(s))

\* ------------------------------------------------------------- constants

WHISPER_URL == "http://127.0.0.1:8100/inference"
OLLAMA_URL == "http://localhost:11434/api/generate"
DefaultModel == "llama3.1:8b"

\* ----------------------------------------------------------- JSON values
\* A parsed JSON document, as far as the handlers look at it: its type t,
\* whether it is falsy in Python (None, False, 0, "", [], {}), whether the
\* key the handler asks for is `in` it (a key of an object, an element of an
\* array, a substring of a string), and the value v under that key.
\* t = "unparseable" is a body request.get_json() cannot parse.
Json(t, falsy, has, v) == [t |-> t, falsy |-> falsy, has |-> has, v |-> v]

\* The value of a JSON field: a string of base64 symbols (t = "str"), a
\* string with a non-ASCII character, a number, null or an array.
Val(t, s) == [t |-> t, s |-> s]
NoVal == Val("null", <<>>)
NoJson == Json("null", TRUE, FALSE, NoVal)

\* ------------------------------------------------------------- responses
\* A JSON response body: the keys it carries and their values.
Body(keys, status, error, text, language, response) ==
    [keys |-> keys, status |-> status, error |-> error, text |-> text,
     language |-> language, response |-> response]
NoBody == Body({}, "", <<>>, <<>>, "", "")
ErrorBody(msg) == Body({"error"}, "", msg, <<>>, "", "")

Response(status, body) == [status |-> status, body |-> body]
NoResp == Response(0, NoBody)

\* What a block of the handler ends with: a value it returns, an exception
\* it raises (msg is str(e)), or, for ingestion, the bytes to persist.
Return(status, body) ==
    [k |-> "return", status |-> status, body |-> body, msg |-> <<>>,
     suffix |-> "", bytes |-> <<>>]
Raise(msg) ==
    [k |-> "raise", status |-> 0, body |-> NoBody, msg |-> msg,
     suffix |-> "", bytes |-> <<>>]
Persist(suffix, bytes) ==
    [k |-> "persist", status |-> 0, body |-> NoBody, msg |-> <<>>,
     suffix |-> suffix, bytes |-> bytes]
NoOutcome ==
    [k |-> "none", status |-> 0, body |-> NoBody, msg |-> <<>>,
     suffix |-> "", bytes |-> <<>>]

\* ------------------------------------------------------------ file system
Suffixes == {".tmp", ".aac", ".wav"}
Names == Suffixes \X (1..NumNames)
NoName == <<"", 0>>
\* A file of the temporary directory: its bytes and (history) the request
\* whose call created it.
File(creator, data) == [exists |-> TRUE, creator |-> creator, data |-> data]
NoFile == [exists |-> FALSE, creator |-> 0, data |-> <<>>]
\* The canonical waveform the tool writes for raw input `data`: a header
\* followed by samples.
WavHeader == <<82, 73, 70, 70>>
Wav(data) == WavHeader \o data

\* ---------------------------------------------------------------- requests
TranscribeRequest(ctype, hasFile, file, json) ==
    [route |-> "/transcribe", ctype |-> ctype, hasFile |-> hasFile,
     file |-> file, json |-> json, model |-> ""]
AskRequest(json, model) ==
    [route |-> "/ask-ollama", ctype |-> "json", hasFile |-> FALSE,
     file |-> <<>>, json |-> json, model |-> model]
HealthRequest ==
    [route |-> "/health", ctype |-> "none", hasFile |-> FALSE,
     file |-> <<>>, json |-> NoJson, model |-> ""]
NoRequest ==
    [route |-> "", ctype |-> "none", hasFile |-> FALSE,
     file |-> <<>>, json |-> NoJson, model |-> ""]

\* ------------------------------------------------------- external replies
\* What subprocess.run(cmd, capture_output=True, text=True) of line 28 ends
\* with: FileNotFoundError when the tool is not on the path, else the
\* completed process (its return code and captured standard error) and what
\* the tool did to the output path: "written" (a waveform), "empty" (a file
\* of size 0), "removed" (no file) or "untouched".
Completed(found, returncode, stderr, out) ==
    [found |-> found, returncode |-> returncode, stderr |-> stderr, out |-> out]
NoCompleted == Completed(FALSE, 0, "", "none")
ToolOutcomes ==
    {Completed(FALSE, 0, "", "untouched"),
     Completed(TRUE, 1, "Invalid data found when processing input", "untouched")}
    \cup {Completed(TRUE, 0, "", o) : o \in {"written", "empty", "removed"}}

\* What requests.post ends with: a network error (net = FALSE, error its
\* message) or an HTTP response: its status, whether its body parses as
\* JSON, and the fields of that JSON object (present or not).
Reply(net, error, status, json, hasText, text, hasLanguage, language, hasDuration, hasResponse, response) ==
    [net |-> net, error |-> error, status |-> status, json |-> json,
     hasText |-> hasText, text |-> text,
     hasLanguage |-> hasLanguage, language |-> language,
     hasDuration |-> hasDuration,
     hasResponse |-> hasResponse, response |-> response]
NoReply == Reply(FALSE, "", 0, FALSE, FALSE, <<>>, FALSE, "", FALSE, FALSE, "")
NetError(msg) == Reply(FALSE, msg, 0, FALSE, FALSE, <<>>, FALSE, "", FALSE, FALSE, "")
HttpReply(status, json) ==
    Reply(TRUE, "", status, json, FALSE, <<>>, FALSE, "", FALSE, FALSE, "")
\* The statuses a backend answers with: success, a redirect requests does
\* not follow (no Location header), a client error, a server error.
HttpStatuses == {200, 302, 404, 500}

\* The replies of the speech-to-text backend, with transcripts from texts.
WhisperReplies(texts) ==
    {NetError("Connection refused")}
    \cup {HttpReply(st, j) : st \in HttpStatuses, j \in BOOLEAN}
    \cup {Reply(TRUE, "", st, TRUE, TRUE, t, hl, IF hl THEN "en" ELSE "", hd, FALSE, "") :
            st \in {200, 302}, t \in texts, hl \in BOOLEAN, hd \in BOOLEAN}

\* The replies of the language-model backend.
OllamaReplies ==
    {NetError("Connection refused")}
    \cup {HttpReply(st, j) : st \in HttpStatuses, j \in BOOLEAN}
    \cup {Reply(TRUE, "", st, TRUE, FALSE, <<>>, FALSE, "", FALSE, TRUE, "Hi there") :
            st \in {200, 302}}

\* ----------------------------------------------------- convert_audio_to_wav
\* The try block of lines 16-40: the exception it raises (its class and
\* message) or none. exists and size are those of output_path after the run.
ConvertBody(result, exists, size) ==
    IF ~result.found THEN
        [exc |-> "FileNotFoundError", msg |-> <<"[Errno 2] No such file or directory: 'ffmpeg'">>]
    ELSE IF result.returncode # 0 THEN
        [exc |-> "Exception", msg |-> <<"FFmpeg conversion failed: ", result.stderr>>]
    ELSE IF ~exists \/ size = 0 THEN
        [exc |-> "Exception", msg |-> <<"Converted file is empty or doesn't exist">>]
    ELSE [exc |-> "", msg |-> <<>>]

\* The try block without the check of the output file of lines 35-36.
ConvertBodyNoOutputCheck(result, exists, size) ==
    IF ~result.found THEN
        [exc |-> "FileNotFoundError", msg |-> <<"[Errno 2] No such file or directory: 'ffmpeg'">>]
    ELSE IF result.returncode # 0 THEN
        [exc |-> "Exception", msg |-> <<"FFmpeg conversion failed: ", result.stderr>>]
    ELSE [exc |-> "", msg |-> <<>>]

\* The handlers with `except Exception` tried first: it takes the
\* FileNotFoundError too.
convert_handlers_swapped(result, exists, size) ==
    LET b == ConvertBody(result, exists, size)
    IN  IF b.exc = "" THEN Return(0, NoBody)
        ELSE Raise(<<"Audio conversion failed: ">> \o b.msg)

\* convert_audio_to_wav without the output check.
convert_no_output_check(result, exists, size) ==
    LET b == ConvertBodyNoOutputCheck(result, exists, size)
    IN  IF b.exc = "" THEN Return(0, NoBody)
        ELSE IF b.exc = "FileNotFoundError"
        THEN Raise(<<"FFmpeg not found. Install it with: apt install ffmpeg">>)
        ELSE Raise(<<"Audio conversion failed: ">> \o b.msg)

\* convert_audio_to_wav with its errors dropped: it always returns True.
convert_swallows_errors(result, exists, size) == Return(0, NoBody)

\* convert_audio_to_wav: returns True (a Return) or raises. An exception
\* raised inside a handler is not caught by the handler that follows it.
convert_audio_to_wav(result, exists, size) ==
    LET b == ConvertBody(result, exists, size)
    IN  IF b.exc = "" THEN Return(0, NoBody)
        ELSE IF b.exc = "FileNotFoundError"
        THEN Raise(<<"FFmpeg not found. Install it with: apt install ffmpeg">>)
        ELSE Raise(<<"Audio conversion failed: ">> \o b.msg)

\* ------------------------------------------------------------- ingestion
\* `not data or key not in data` of lines 73 and 162 on the parsed body:
\* "raise" (get_json() raises BadRequest on a body it cannot parse; `in` on
\* a number or a bool raises TypeError), "reject" (the condition is true),
\* "pass".
KeyCheck(data) ==
    IF data.t = "unparseable" THEN "raise"
    ELSE IF data.falsy THEN "reject"
    ELSE IF data.t \in {"number", "bool"} THEN "raise"
    ELSE IF ~data.has THEN "reject"
    ELSE "pass"

KeyCheckMessage(data) ==
    IF data.t = "unparseable"
    THEN <<"400 Bad Request: The browser (or proxy) sent a request that this server could not understand.">>
    ELSE <<"TypeError: argument of type '", data.t, "' is not iterable">>

\* Lines 55-93 up to the creation of the temporary file: the 400 response
\* returned, the exception raised, or the bytes to persist and the suffix.
IngestDecode(rq) ==
    IF rq.ctype = "multipart" THEN
        IF ~rq.hasFile THEN Return(400, ErrorBody(<<"No file provided">>))
        ELSE Persist(".tmp", rq.file)
    ELSE IF rq.ctype = "json" THEN
        LET data == rq.json
        IN  IF KeyCheck(data) = "raise" THEN Raise(KeyCheckMessage(data))
            ELSE IF KeyCheck(data) = "reject"
            THEN Return(400, ErrorBody(<<"No audio_data provided in JSON">>))
            ELSE IF data.t # "object"
            THEN Raise(<<"TypeError: indices must be integers, not 'str'">>)
            ELSE IF data.v.t \in {"number", "null"}
            THEN Raise(<<"TypeError: object of type '", data.v.t, "' has no len()">>)
            ELSE LET d == B64Decode(data.v)
                 IN  IF ~d.ok
                     THEN Return(400, ErrorBody(<<"Invalid base64 audio data: ", data.v.t>>))
                     ELSE Persist(".aac", d.bytes)
    ELSE Return(400, ErrorBody(
            <<"Invalid content type. Use multipart/form-data or application/json">>))

\* ---------------------------------------------------------------- backends
\* response.raise_for_status(): HTTPError for a 4xx or 5xx status.
RaiseForStatus(status) == status >= 400 /\ status < 600

\* raise_for_status() left out: every HTTP response counts as a success.
BackendOutcomeNoStatusCheck(reply, url) ==
    IF ~reply.net THEN Raise(<<reply.error>>)
    ELSE IF ~reply.json THEN Raise(<<"Expecting value: line 1 column 1 (char 0)">>)
    ELSE Return(200, NoBody)

\* requests.post(url, ...), raise_for_status() and response.json() of lines
\* 112-115 and 171-174: the exception raised, or a Return when the parsed
\* JSON is at hand.
BackendOutcome(reply, url) ==
    IF ~reply.net THEN Raise(<<reply.error>>)
    ELSE IF RaiseForStatus(reply.status)
    THEN Raise(<<ToString(reply.status), " Error for url: ", url>>)
    ELSE IF ~reply.json THEN Raise(<<"Expecting value: line 1 column 1 (char 0)">>)
    ELSE Return(200, NoBody)

\* Lines 119-127: the response data built from the backend's JSON.
TranscriptionResult(reply) ==
    Body({"status", "text", "language"}, "success", <<>>,
         Strip(IF reply.hasText THEN reply.text ELSE <<>>),
         IF reply.hasLanguage THEN reply.language ELSE "unknown", "")

\* Lines 176-179: the response data of /ask-ollama.
OllamaResult(reply) ==
    Body({"status", "response"}, "success", <<>>, <<>>, "",
         IF reply.hasResponse THEN reply.response ELSE "")

\* The handlers without their `except Exception`: an exception leaves the
\* handler and the handler sends nothing.
ToResponseUncaught(outcome) ==
    IF outcome.k = "return" THEN Response(outcome.status, outcome.body)
    ELSE NoResp

\* The outermost handlers of lines 146-154 and 181-182: what the handler
\* answers for the outcome of its try block.
ToResponse(outcome) ==
    IF outcome.k = "return" THEN Response(outcome.status, outcome.body)
    ELSE Response(500, ErrorBody(outcome.msg))

\* ----------------------------------------------------------------- inputs
\* Audio bytes: the extremes and one in between.
ByteVals == {0, 77, 255}
ByteStrings == SeqsUpTo(ByteVals, MaxLen)
\* Transcripts: a letter and white space.
Chars == {"a", " ", "\n"}
Texts == SeqsUpTo(Chars, MaxText)

\* What a client may put under audio_data: the encoding of its bytes, the
\* same with a line break in it, with its last character lost, and values
\* that are no ASCII string.
AudioDataValues ==
    {Val("str", B64Encode(b)) : b \in ByteStrings}
    \cup {Val("str", <<Junk>> \o B64Encode(b)) : b \in ByteStrings}
    \cup {Val("str", SubSeq(B64Encode(b), 1, Len(B64Encode(b)) - 1)) :
            b \in ByteStrings \ {<<>>}}
    \cup {Val("nonascii", <<>>), Val("number", <<>>), Val("null", <<>>),
          Val("array", <<>>)}

\* The JSON bodies without the key the handler asks for.
JsonWithoutKey ==
    {Json("unparseable", FALSE, FALSE, NoVal), NoJson,
     Json("bool", TRUE, FALSE, NoVal), Json("number", FALSE, FALSE, NoVal),
     Json("string", TRUE, FALSE, NoVal), Json("string", FALSE, FALSE, NoVal),
     Json("string", FALSE, TRUE, NoVal),
     Json("array", TRUE, FALSE, NoVal), Json("array", FALSE, FALSE, NoVal),
     Json("array", FALSE, TRUE, NoVal),
     Json("object", TRUE, FALSE, NoVal), Json("object", FALSE, FALSE, NoVal)}

TranscribeRequests ==
    {TranscribeRequest("multipart", FALSE, <<>>, NoJson),
     TranscribeRequest("other", FALSE, <<>>, NoJson),
     TranscribeRequest("absent", FALSE, <<>>, NoJson)}
    \cup {TranscribeRequest("multipart", TRUE, b, NoJson) : b \in ByteStrings}
    \cup {TranscribeRequest("json", FALSE, <<>>, j) : j \in JsonWithoutKey}
    \cup {TranscribeRequest("json", FALSE, <<>>, Json("object", FALSE, TRUE, v)) :
            v \in AudioDataValues}

AskRequests ==
    {AskRequest(j, "") : j \in JsonWithoutKey}
    \cup {AskRequest(Json("object", FALSE, TRUE, Val("str", <<>>)), m) :
            m \in {"", "mistral"}}

\* The requests and replies of the concurrent specification: one of each
\* class.
SmallTranscribeRequests ==
    {TranscribeRequest("multipart", FALSE, <<>>, NoJson),
     TranscribeRequest("other", FALSE, <<>>, NoJson),
     TranscribeRequest("multipart", TRUE, <<77>>, NoJson),
     TranscribeRequest("json", FALSE, <<>>, Json("unparseable", FALSE, FALSE, NoVal)),
     TranscribeRequest("json", FALSE, <<>>,
                       Json("object", FALSE, TRUE, Val("str", B64Encode(<<77>>))))}
SmallAskRequests ==
    {AskRequest(NoJson, ""),
     AskRequest(Json("object", FALSE, TRUE, Val("str", <<>>)), "")}
SmallWhisperReplies ==
    {NetError("Connection refused"), HttpReply(500, FALSE),
     Reply(TRUE, "", 200, TRUE, TRUE, <<" ", "a">>, TRUE, "en", TRUE, FALSE, "")}
SmallOllamaReplies ==
    {NetError("Connection refused"),
     Reply(TRUE, "", 200, TRUE, FALSE, <<>>, FALSE, "", FALSE, TRUE, "Hi there")}

\* ------------------------------------------------------------------ state
VARIABLES
    pc,              \* where each request's handler stands
    req,             \* the request each context handles
    tmp_input,       \* the name of the open NamedTemporaryFile of line 64/88
    tmp_input_path,  \* the local of that name (line 52, 66, 90)
    tmp_wav_path,    \* the local of that name (line 98); NoName: unbound
    fs,              \* the temporary directory: name -> file
    result,          \* what subprocess.run ended with (line 28)
    response,        \* what requests.post ended with (line 112, 171)
    payload,         \* the JSON sent to the language-model backend (line 165)
    pending,         \* the return value or exception the finally block holds
    resp,            \* the HTTP response of the request
    calls            \* (history) invocations of the tool and the backends

vars == <<pc, req, tmp_input, tmp_input_path, tmp_wav_path, fs, result,
          response, payload, pending, resp, calls>>

NoCalls == [ffmpeg |-> 0, whisper |-> 0, ollama |-> 0]
NoPayload == [model |-> "", prompt |-> NoVal, stream |-> TRUE]

Init ==
    /\ pc = [r \in Req |-> "idle"]
    /\ req = [r \in Req |-> NoRequest]
    /\ tmp_input = [r \in Req |-> NoName]
    /\ tmp_input_path = [r \in Req |-> NoName]
    /\ tmp_wav_path = [r \in Req |-> NoName]
    /\ fs = [n \in Names |-> NoFile]
    /\ result = [r \in Req |-> NoCompleted]
    /\ response = [r \in Req |-> NoReply]
    /\ payload = [r \in Req |-> NoPayload]
    /\ pending = [r \in Req |-> NoOutcome]
    /\ resp = [r \in Req |-> NoResp]
    /\ calls = [r \in Req |-> NoCalls]

\* tempfile's candidates: the names of the suffix that no file bears
\* (the file is created with O_CREAT | O_EXCL).
FreeNames(suffix) == {n \in Names : n[1] = suffix /\ ~fs[n].exists}

\* The handler returns: the response goes out and the locals are gone.
Finish(r, outcome) ==
    /\ resp' = [resp EXCEPT ![r] = ToResponse(outcome)]
    /\ pc' = [pc EXCEPT ![r] = "done"]
    /\ pending' = [pending EXCEPT ![r] = NoOutcome]
    /\ tmp_input' = [tmp_input EXCEPT ![r] = NoName]
    /\ tmp_input_path' = [tmp_input_path EXCEPT ![r] = NoName]
    /\ tmp_wav_path' = [tmp_wav_path EXCEPT ![r] = NoName]

\* A failed deletion raises out of the finally block.
CleanupEscalates(outcome) == Raise(<<"[Errno 13] Permission denied">>)

\* `except: pass` of lines 143-144: an exception of the cleanup is dropped
\* and the handler goes on with what the try block ended with.
CleanupSwallows(outcome) == outcome

\* The dispatch with the temporary file created before the request is
\* validated: a rejected request leaves an empty file behind.
IngestCreatesFirst(r, rq) ==
    /\ pc[r] = "idle"
    /\ rq.route = "/transcribe"
    /\ req' = [req EXCEPT ![r] = rq]
    /\ LET d == IngestDecode(rq)
       IN  \/ \E n \in FreeNames(IF d.k = "persist" THEN d.suffix ELSE ".tmp") :
                /\ fs' = [fs EXCEPT ![n] = File(r, <<>>)]
                /\ IF d.k = "persist"
                   THEN /\ tmp_input' = [tmp_input EXCEPT ![r] = n]
                        /\ pc' = [pc EXCEPT ![r] = "save"]
                        /\ UNCHANGED <<tmp_input_path, tmp_wav_path, pending, resp>>
                   ELSE Finish(r, d)
           \/ /\ Finish(r, Raise(<<"[Errno 28] No space left on device">>))
              /\ UNCHANGED fs
    /\ UNCHANGED <<result, response, payload, calls>>

\* POST /transcribe, lines 50-93: the request is dispatched on its content
\* type; a valid one gets its temporary file for the raw input (line 64/88).
Ingest(r, rq) ==
    /\ pc[r] = "idle"
    /\ rq.route = "/transcribe"
    /\ req' = [req EXCEPT ![r] = rq]
    /\ LET d == IngestDecode(rq)
       IN  IF d.k = "persist"
           THEN \/ \E n \in FreeNames(d.suffix) :
                     /\ fs' = [fs EXCEPT ![n] = File(r, <<>>)]
                     /\ tmp_input' = [tmp_input EXCEPT ![r] = n]
                     /\ pc' = [pc EXCEPT ![r] = "save"]
                     /\ UNCHANGED <<tmp_input_path, tmp_wav_path, pending, resp>>
                \/ /\ Finish(r, Raise(<<"[Errno 28] No space left on device">>))
                   /\ UNCHANGED fs
           ELSE /\ Finish(r, d)
                /\ UNCHANGED fs
    /\ UNCHANGED <<result, response, payload, calls>>

\* The bytes saved to a second temporary file instead of the open one.
SaveToNewFile(r) ==
    /\ pc[r] = "save"
    /\ \/ \E n \in FreeNames(tmp_input[r][1]) :
             /\ fs' = [fs EXCEPT ![n] = File(r, IngestDecode(req[r]).bytes)]
             /\ tmp_input_path' = [tmp_input_path EXCEPT ![r] = n]
             /\ pc' = [pc EXCEPT ![r] = "alloc"]
             /\ UNCHANGED <<tmp_input, tmp_wav_path, pending, resp>>
       \/ /\ Finish(r, Raise(<<"[Errno 28] No space left on device">>))
          /\ UNCHANGED fs
    /\ UNCHANGED <<req, result, response, payload, calls>>

\* Lines 65-68 and 89-91: the bytes are written to the temporary file and
\* its name is kept; a failed write raises to the outermost handler.
Save(r) ==
    /\ pc[r] = "save"
    /\ \/ /\ fs' = [fs EXCEPT ![tmp_input[r]] =
                        File(fs[tmp_input[r]].creator, IngestDecode(req[r]).bytes)]
          /\ tmp_input_path' = [tmp_input_path EXCEPT ![r] = tmp_input[r]]
          /\ pc' = [pc EXCEPT ![r] = "alloc"]
          /\ UNCHANGED <<tmp_input, tmp_wav_path, pending, resp>>
       \/ /\ Finish(r, Raise(<<"[Errno 28] No space left on device">>))
          /\ UNCHANGED fs
    /\ UNCHANGED <<req, result, response, payload, calls>>

\* Lines 97-98, inside the inner try: the temporary file of the output.
AllocWav(r) ==
    /\ pc[r] = "alloc"
    /\ \/ \E n \in FreeNames(".wav") :
             /\ fs' = [fs EXCEPT ![n] = File(r, <<>>)]
             /\ tmp_wav_path' = [tmp_wav_path EXCEPT ![r] = n]
             /\ pc' = [pc EXCEPT ![r] = "convert"]
             /\ UNCHANGED pending
       \/ /\ pending' = [pending EXCEPT ![r] =
                            Raise(<<"[Errno 28] No space left on device">>)]
          /\ pc' = [pc EXCEPT ![r] = "unlink_input"]
          /\ UNCHANGED <<fs, tmp_wav_path>>
    /\ UNCHANGED <<req, tmp_input, tmp_input_path, result, response, payload,
                   resp, calls>>

\* The temporary directory after the tool ran for request r with outcome t:
\* ffmpeg -y overwrites (or creates) the output path.
AfterTool(r, t) ==
    LET out == tmp_wav_path[r]
        owner == IF fs[out].exists THEN fs[out].creator ELSE r
    IN  IF t.out = "written"
        THEN [fs EXCEPT ![out] = File(owner, Wav(fs[tmp_input_path[r]].data))]
        ELSE IF t.out = "empty" THEN [fs EXCEPT ![out] = File(owner, <<>>)]
        ELSE IF t.out = "removed" THEN [fs EXCEPT ![out] = NoFile]
        ELSE fs

\* Line 100 with one retry: a conversion that raised is tried once more.
ConvertRetries(r) ==
    /\ pc[r] = "convert"
    /\ \E t \in ToolOutcomes :
         /\ fs[tmp_input_path[r]].exists \/ ~t.found \/ t.returncode # 0
         /\ LET after == AfterTool(r, t)
                c == convert_audio_to_wav(t, after[tmp_wav_path[r]].exists,
                                          Len(after[tmp_wav_path[r]].data))
            IN  /\ fs' = after
                /\ result' = [result EXCEPT ![r] = t]
                /\ IF c.k = "return"
                   THEN /\ pc' = [pc EXCEPT ![r] = "post"]
                        /\ UNCHANGED pending
                   ELSE IF calls[r].ffmpeg = 0
                   THEN UNCHANGED <<pc, pending>>
                   ELSE /\ pc' = [pc EXCEPT ![r] = "unlink_input"]
                        /\ pending' = [pending EXCEPT ![r] = c]
    /\ calls' = [calls EXCEPT ![r].ffmpeg = @ + 1]
    /\ UNCHANGED <<req, tmp_input, tmp_input_path, tmp_wav_path, response,
                   payload, resp>>

\* Line 100: convert_audio_to_wav(tmp_input_path, tmp_wav_path).
Convert(r) ==
    /\ pc[r] = "convert"
    /\ \E t \in ToolOutcomes :
         /\ fs[tmp_input_path[r]].exists \/ ~t.found \/ t.returncode # 0
         /\ LET after == AfterTool(r, t)
                c == convert_audio_to_wav(t, after[tmp_wav_path[r]].exists,
                                          Len(after[tmp_wav_path[r]].data))
            IN  /\ fs' = after
                /\ result' = [result EXCEPT ![r] = t]
                /\ IF c.k = "return"
                   THEN /\ pc' = [pc EXCEPT ![r] = "post"]
                        /\ UNCHANGED pending
                   ELSE /\ pc' = [pc EXCEPT ![r] = "unlink_input"]
                        /\ pending' = [pending EXCEPT ![r] = c]
    /\ calls' = [calls EXCEPT ![r].ffmpeg = @ + 1]
    /\ UNCHANGED <<req, tmp_input, tmp_input_path, tmp_wav_path, response,
                   payload, resp>>

\* Lines 103-135: the output is opened and uploaded, the backend replies w,
\* the reply is checked, parsed and reshaped; the try block ends with a
\* return or an exception.
PostWhisper(r, w) ==
    /\ pc[r] = "post"
    /\ IF ~fs[tmp_wav_path[r]].exists
       THEN /\ pending' = [pending EXCEPT ![r] =
                              Raise(<<"[Errno 2] No such file or directory">>)]
            /\ UNCHANGED <<response, calls>>
       ELSE /\ response' = [response EXCEPT ![r] = w]
            /\ calls' = [calls EXCEPT ![r].whisper = @ + 1]
            /\ LET o == BackendOutcome(w, WHISPER_URL)
               IN  pending' = [pending EXCEPT ![r] =
                      IF o.k = "raise" THEN o
                      ELSE Return(200, TranscriptionResult(w))]
    /\ pc' = [pc EXCEPT ![r] = "unlink_input"]
    /\ UNCHANGED <<req, tmp_input, tmp_input_path, tmp_wav_path, fs, result,
                   payload, resp>>

\* Line 140 in the finally block: os.unlink(tmp_input_path). When it raises,
\* line 141 is skipped and the handler is left through `except: pass`.
UnlinkInput(r) ==
    /\ pc[r] = "unlink_input"
    /\ \/ /\ fs[tmp_input_path[r]].exists
          /\ fs' = [fs EXCEPT ![tmp_input_path[r]] = NoFile]
          /\ pc' = [pc EXCEPT ![r] = "unlink_wav"]
          /\ UNCHANGED <<tmp_input, tmp_input_path, tmp_wav_path, pending, resp>>
       \/ /\ Finish(r, CleanupSwallows(pending[r]))
          /\ UNCHANGED fs
    /\ UNCHANGED <<req, result, response, payload, calls>>

\* Line 141: os.unlink(tmp_wav_path); the name is unbound when line 97
\* raised (NameError), and the file may be gone or refuse deletion.
UnlinkWav(r) ==
    /\ pc[r] = "unlink_wav"
    /\ \/ /\ tmp_wav_path[r] # NoName
          /\ fs[tmp_wav_path[r]].exists
          /\ fs' = [fs EXCEPT ![tmp_wav_path[r]] = NoFile]
          /\ Finish(r, pending[r])
       \/ /\ Finish(r, CleanupSwallows(pending[r]))
          /\ UNCHANGED fs
    /\ UNCHANGED <<req, result, response, payload, calls>>

\* POST /ask-ollama, lines 157-182; w is the reply of the backend when the
\* handler calls it.
ask_ollama(r, rq, w) ==
    /\ pc[r] = "idle"
    /\ rq.route = "/ask-ollama"
    /\ req' = [req EXCEPT ![r] = rq]
    /\ LET data == rq.json
       IN  IF KeyCheck(data) = "raise"
           THEN /\ Finish(r, Raise(KeyCheckMessage(data)))
                /\ UNCHANGED <<payload, response, calls>>
           ELSE IF KeyCheck(data) = "reject"
           THEN /\ Finish(r, Return(400, ErrorBody(<<"No prompt provided">>)))
                /\ UNCHANGED <<payload, response, calls>>
           ELSE IF data.t # "object"
           THEN /\ Finish(r, Raise(<<"AttributeError: object has no attribute 'get'">>))
                /\ UNCHANGED <<payload, response, calls>>
           ELSE /\ payload' = [payload EXCEPT ![r] =
                      [model |-> IF rq.model = "" THEN DefaultModel ELSE rq.model,
                       prompt |-> data.v, stream |-> FALSE]]
                /\ response' = [response EXCEPT ![r] = w]
                /\ calls' = [calls EXCEPT ![r].ollama = @ + 1]
                /\ LET o == BackendOutcome(w, OLLAMA_URL)
                   IN  Finish(r, IF o.k = "raise" THEN o
                                 ELSE Return(200, OllamaResult(w)))
    /\ UNCHANGED <<fs, result>>

\* A health check that probes the language-model backend before answering.
health_probes_backend(r) ==
    /\ pc[r] = "idle"
    /\ req' = [req EXCEPT ![r] = HealthRequest]
    /\ calls' = [calls EXCEPT ![r].ollama = @ + 1]
    /\ Finish(r, Return(200, Body({"status"}, "ok", <<>>, <<>>, "", "")))
    /\ UNCHANGED <<fs, result, response, payload>>

\* GET /health, lines 184-187.
health(r) ==
    /\ pc[r] = "idle"
    /\ req' = [req EXCEPT ![r] = HealthRequest]
    /\ Finish(r, Return(200, Body({"status"}, "ok", <<>>, <<>>, "", "")))
    /\ UNCHANGED <<fs, result, response, payload, calls>>

\* ---------------------------------------------------------- specifications
\* The steps of the handler of request r that take no input.
Handle(r) ==
    \/ Save(r)
    \/ AllocWav(r)
    \/ Convert(r)
    \/ UnlinkInput(r)
    \/ UnlinkWav(r)
    \/ health(r)

\* The server handling NumReq requests concurrently.
Next ==
    \E r \in Req :
        \/ Handle(r)
        \/ \E rq \in SmallTranscribeRequests : Ingest(r, rq)
        \/ \E w \in SmallWhisperReplies : PostWhisper(r, w)
        \/ \E rq \in SmallAskRequests : \E w \in SmallOllamaReplies : ask_ollama(r, rq, w)

Spec == Init /\ [][Next]_vars

\* The server handling one request, over all request envelopes.
NextIngest ==
    \/ Handle(1)
    \/ \E rq \in TranscribeRequests : Ingest(1, rq)
    \/ \E w \in SmallWhisperReplies : PostWhisper(1, w)
    \/ \E rq \in AskRequests : \E w \in OllamaReplies : ask_ollama(1, rq, w)

SpecIngest == Init /\ [][NextIngest]_vars

\* The server handling one request, over all replies of the backends.
NextBackend ==
    \/ Handle(1)
    \/ \E rq \in SmallTranscribeRequests : Ingest(1, rq)
    \/ \E w \in WhisperReplies(Texts) : PostWhisper(1, w)
    \/ \E rq \in SmallAskRequests : \E w \in OllamaReplies : ask_ollama(1, rq, w)

SpecBackend == Init /\ [][NextBackend]_vars

\* The steps of a running /transcribe handler: the handler thread keeps
\* running, the tool of line 28 and the backend of line 112 return.
Progress(r) ==
    \/ Save(r)
    \/ AllocWav(r)
    \/ Convert(r)
    \/ \E w \in SmallWhisperReplies : PostWhisper(r, w)
    \/ UnlinkInput(r)
    \/ UnlinkWav(r)

\* The concurrent server when no handler waits for ever.
FairSpec == Spec /\ \A r \in Req : WF_vars(Progress(r))

\* ------------------------------------------------------------------ claims

\* The scratch artifacts request r created that are on disk.
ArtifactsOf(r) == {n \in Names : fs[n].exists /\ fs[n].creator = r}
Transcribed(r) == pc[r] = "done" /\ req[r].route = "/transcribe"

\* C1: when the handler of POST /transcribe has returned its response, on
\* every exit path, no scratch artifact created during that call is left on
\* disk.
C1_NoScratchArtifactRemains ==
    \A r \in Req : Transcribed(r) => ArtifactsOf(r) = {}

\* The client-supplied data of a /transcribe request is malformed or
\* missing: no file field, no audio_data, a body that does not parse, an
\* audio_data that is no base64 string or does not decode, another or no
\* content type.
Malformed(rq) ==
    \/ rq.ctype = "multipart" /\ ~rq.hasFile
    \/ rq.ctype \notin {"multipart", "json"}
    \/ /\ rq.ctype = "json"
       /\ \/ rq.json.t = "unparseable"
          \/ ~(rq.json.t = "object" /\ rq.json.has)
          \/ rq.json.v.t # "str"
          \/ ~A2bBase64(rq.json.v.s, 1, 0, 0, 0, <<>>).ok

\* C2: every /transcribe request with malformed or missing client data is
\* answered 400 with an {error} body, never 500.
C2_MalformedInputIs400 ==
    \A r \in Req :
        (Transcribed(r) /\ Malformed(req[r])) =>
            (resp[r].status = 400 /\ resp[r].body.keys = {"error"})

\* C3: convert_audio_to_wav reports success exactly when the tool was found,
\* exited with status zero and left an output file of non-zero size; in every
\* other case it raises and the handler goes to its cleanup with an
\* exception.
C3_ConvertSucceedsIffToolFoundExitZeroOutputNonEmpty ==
    [][\A r \in Req :
         (pc[r] = "convert" /\ pc'[r] # "convert") =>
            LET out == fs'[tmp_wav_path[r]]
                good == /\ result'[r].found
                        /\ result'[r].returncode = 0
                        /\ out.exists
                        /\ Len(out.data) > 0
            IN  /\ (pc'[r] = "post") <=> good
                /\ ~good => (pc'[r] = "unlink_input" /\ pending'[r].k = "raise")
      ]_vars

\* The tool exited with status zero, left no usable output, and the
\* conversion raised.
C3_Witness ==
    \E r \in Req :
        /\ pc[r] = "unlink_input"
        /\ calls[r].ffmpeg = 1
        /\ result[r].found /\ result[r].returncode = 0
        /\ result[r].out \in {"empty", "removed"}
        /\ pending[r].k = "raise"

InstallHint == <<"FFmpeg not found. Install it with: apt install ffmpeg">>

\* C4: when the tool is not on the path, a /transcribe request that reached
\* the conversion is answered 500 with the tool-missing message and its
\* install hint; a conversion that fails for a non-zero exit or an empty
\* output is answered with another message.
C4_ToolMissingIs500WithInstallHint ==
    \A r \in Req :
        (Transcribed(r) /\ calls[r].ffmpeg = 1) =>
            /\ ~result[r].found => resp[r] = Response(500, ErrorBody(InstallHint))
            /\ (result[r].found /\ calls[r].whisper = 0 /\ resp[r].status = 500)
                   => resp[r].body.error # InstallHint

C4_Witness ==
    \E r \in Req :
        /\ Transcribed(r)
        /\ calls[r].ffmpeg = 1
        /\ ~result[r].found
        /\ resp[r].status = 500

\* The message of the error body of request r names the failure of the
\* backend: the network error's text, or the status of the HTTP error.
CarriesBackendMessage(r) ==
    /\ resp[r].body.keys = {"error"}
    /\ IF response[r].net
       THEN resp[r].body.error[1] = ToString(response[r].status)
       ELSE resp[r].body.error = <<response[r].error>>

\* The conversion of request r succeeded.
Converted(r) ==
    /\ calls[r].ffmpeg = 1
    /\ result[r].found /\ result[r].returncode = 0 /\ result[r].out = "written"

IsTrimOf(t, s) ==
    /\ t = <<>> \/ (~IsSpace(t[1]) /\ ~IsSpace(t[Len(t)]))
    /\ \E a \in 0..Len(s) : \E b \in 0..(Len(s) - a) :
          /\ t = SubSeq(s, a + 1, Len(s) - b)
          /\ \A i \in 1..a : IsSpace(s[i])
          /\ \A i \in (Len(s) - b + 1)..Len(s) : IsSpace(s[i])

\* C6: a successful /transcribe response is {status: "success", text,
\* language}: text is the backend's text without its surrounding white space
\* ("" if absent), language the backend's language ("unknown" if absent), and
\* the backend's duration is not in it.
C6_SuccessBodyIsTrimmedTextAndLanguage ==
    \A r \in Req :
        (Transcribed(r) /\ resp[r].status = 200) =>
            /\ resp[r].body.keys = {"status", "text", "language"}
            /\ resp[r].body.status = "success"
            /\ IsTrimOf(resp[r].body.text,
                        IF response[r].hasText THEN response[r].text ELSE <<>>)
            /\ resp[r].body.language =
                  (IF response[r].hasLanguage THEN response[r].language ELSE "unknown")

C6_Witness ==
    \E r \in Req :
        /\ Transcribed(r) /\ resp[r].status = 200
        /\ response[r].hasDuration
        /\ response[r].text = <<" ", "a", "\n">>
        /\ resp[r].body.text = <<"a">>

\* C7: what the cleanup does never changes the answer: the response of a
\* /transcribe request that reached the cleanup is the one its try block
\* ended with, whether the deletions succeed or fail.
C7_CleanupNeverChangesResponse ==
    [][\A r \in Req :
         /\ (pc[r] = "unlink_input" /\ pc'[r] = "unlink_wav") =>
                pending'[r] = pending[r]
         /\ (pc[r] \in {"unlink_input", "unlink_wav"} /\ pc'[r] = "done") =>
                resp'[r] = ToResponse(pending[r])
      ]_vars

\* A successful request whose cleanup failed: an artifact of it is left.
C7_Witness ==
    \E r \in Req :
        /\ Transcribed(r) /\ resp[r].status = 200
        /\ ArtifactsOf(r) # {}

\* The paths request r holds that name an artifact it created.
HeldArtifacts(r) ==
    {p \in {tmp_input[r], tmp_input_path[r], tmp_wav_path[r]} \ {NoName} :
        fs[p].exists /\ fs[p].creator = r}

\* C8: under every interleaving, the artifacts of concurrent requests bear
\* distinct names, and a request reads, overwrites and deletes only
\* artifacts it created itself.
C8_ArtifactsArePrivate ==
    [][\A r \in Req :
         pc'[r] # pc[r] =>
            /\ \A q \in Req \ {r} : HeldArtifacts(r) \cap HeldArtifacts(q) = {}
            /\ \A n \in Names :
                  (fs[n].exists /\ fs'[n] # fs[n]) => fs[n].creator = r
            /\ (pc[r] = "convert" /\ fs[tmp_input_path[r]].exists) =>
                  fs[tmp_input_path[r]].creator = r
            /\ (pc[r] = "post" /\ fs[tmp_wav_path[r]].exists) =>
                  fs[tmp_wav_path[r]].creator = r
      ]_vars

\* C9: for audio bytes B, a multipart request with B as its file and a JSON
\* request with the base64 encoding of B both hand the conversion a raw
\* artifact whose content is B.
C9_RawArtifactHoldsTheAudioBytes ==
    \A r \in Req :
        pc[r] \in {"alloc", "convert"} =>
            LET raw == fs[tmp_input_path[r]]
            IN  /\ raw.exists
                /\ req[r].ctype = "multipart" => raw.data = req[r].file
                /\ req[r].ctype = "json" =>
                      \A b \in ByteStrings :
                          req[r].json.v = Val("str", B64Encode(b)) => raw.data = b

C9_Witness ==
    \E r \in Req :
        /\ pc[r] = "convert"
        /\ req[r].ctype = "json"
        /\ req[r].json.v = Val("str", B64Encode(<<77, 255>>))
        /\ fs[tmp_input_path[r]].data = <<77, 255>>

Asked(r) == pc[r] = "done" /\ req[r].route = "/ask-ollama"
NoPrompt(rq) == ~(rq.json.t = "object" /\ rq.json.has)

\* C10: /ask-ollama answers 400 exactly when the request carries no prompt
\* (a request with no JSON body included) and then calls no backend, 500
\* when the backend is unreachable or answers non-2xx, and else 200 with
\* {status: "success", response}, response being the backend's field or "".
C10_AskOllamaStatuses ==
    \A r \in Req :
        Asked(r) =>
            /\ resp[r].status = 400 <=> NoPrompt(req[r])
            /\ NoPrompt(req[r]) => calls[r].ollama = 0
            /\ (calls[r].ollama = 1
                  /\ (~response[r].net \/ response[r].status \notin 200..299)) =>
                  resp[r].status = 500
            /\ (calls[r].ollama = 1
                  /\ response[r].net /\ response[r].status \in 200..299) =>
                  resp[r] = Response(200,
                      Body({"status", "response"}, "success", <<>>, <<>>, "",
                           IF response[r].hasResponse THEN response[r].response ELSE ""))

\* C11: every request to /transcribe or /ask-ollama ends, when the tool and
\* the backends return, with exactly one response, of status 200, 400 or
\* 500, whatever the other requests did or suffered: a request once begun
\* comes to its end, at its end its response is one of the three, and a
\* response is sent only at the end and never replaced.
C11_EveryRequestEndsWithOneResponse ==
    /\ \A r \in Req : (pc[r] # "idle") ~> (pc[r] = "done")
    /\ [](\A r \in Req :
            (Transcribed(r) \/ Asked(r)) => resp[r].status \in {200, 400, 500})
    /\ [][\A r \in Req :
            resp'[r] # resp[r] => (resp[r] = NoResp /\ pc'[r] = "done")]_vars

\* One request failed with 500 and another was served with 200.
C11_Witness ==
    \E r, q \in Req :
        /\ Transcribed(r) /\ resp[r].status = 500
        /\ Transcribed(q) /\ resp[q].status = 200

\* C12: nothing is retried: a /transcribe request runs the tool at most
\* once and calls the speech-to-text backend at most once, an /ask-ollama
\* request calls the language-model backend at most once, and once a step of
\* a request has failed the request makes no further call and only cleans up
\* and answers.
C12_NothingIsRetried ==
    [][\A r \in Req :
         /\ calls'[r].ffmpeg <= 1
         /\ calls'[r].whisper <= 1
         /\ calls'[r].ollama <= 1
         /\ (pending[r].k = "raise" \/ pc[r] = "done") =>
               /\ calls'[r] = calls[r]
               /\ pc'[r] \in {"unlink_input", "unlink_wav", "done"}
      ]_vars

\* The tool failed on its one run and the request ended without a call of
\* the backend.
C12_Witness ==
    \E r \in Req :
        /\ Transcribed(r)
        /\ calls[r] = [ffmpeg |-> 1, whisper |-> 0, ollama |-> 0]
        /\ result[r].found /\ result[r].returncode # 0
        /\ resp[r].status = 500

\* C13: GET /health is answered in every state of the system, whatever the
\* other requests are doing, with 200 {"status": "ok"}, and answering it runs
\* no tool, calls no backend and creates, changes or deletes no file.
C13_HealthIsAlwaysOkAndCallsNothing ==
    [][\A r \in Req :
         /\ pc[r] = "idle" => ENABLED health(r)
         /\ (pc[r] = "idle" /\ req'[r] = HealthRequest) =>
               /\ resp'[r] = Response(200, Body({"status"}, "ok", <<>>, <<>>, "", ""))
               /\ calls' = calls
               /\ fs' = fs
               /\ result' = result
               /\ response' = response
      ]_vars

\* A health check answered while the tool is missing for another request
\* that still holds its artifacts.
C13_Witness ==
    \E r, q \in Req :
        /\ pc[r] = "done" /\ req[r] = HealthRequest /\ resp[r].status = 200
        /\ pc[q] = "unlink_input" /\ ~result[q].found /\ calls[q].ffmpeg = 1
        /\ ArtifactsOf(q) # {}

\* C14: within a /transcribe request the steps come in the order ingestion,
\* conversion, backend call: the tool is run only when ingestion has
\* accepted the request and its raw artifact is on disk, the speech-to-text
\* backend is called only when the conversion has reported success, and a
\* conversion that raised sends the request to its cleanup with the
\* exception, the backend never being called.
C14_IngestionThenConversionThenBackend ==
    [][\A r \in Req :
         /\ calls'[r].ffmpeg # calls[r].ffmpeg =>
               /\ IngestDecode(req[r]).k = "persist"
               /\ tmp_input_path[r] # NoName
               /\ fs[tmp_input_path[r]].exists
               /\ fs[tmp_input_path[r]].data = IngestDecode(req[r]).bytes
               /\ calls[r].whisper = 0
         /\ calls'[r].whisper # calls[r].whisper =>
               /\ Converted(r)
               /\ pending[r].k = "none"
         /\ (pc[r] = "convert" /\ pc'[r] \notin {"convert", "post"}) =>
               /\ pc'[r] = "unlink_input"
               /\ pending'[r].k = "raise"
         /\ (calls[r].ffmpeg = 1 /\ ~Converted(r)) => calls'[r].whisper = 0
      ]_vars

\* A request that went through the three steps in order.
C14_Witness ==
    \E r \in Req :
        /\ pc[r] = "unlink_input"
        /\ IngestDecode(req[r]).k = "persist"
        /\ Converted(r)
        /\ calls[r].whisper = 1
        /\ pending[r].k = "return"

\* C15: in the cleanup of /transcribe each of the two artifacts is deleted
\* regardless of the other: when the deletion of the raw input fails, or the
\* raw input is gone, and the output is on disk, the cleanup still goes on
\* to delete the output.
C15_EachArtifactIsDeletedRegardlessOfTheOther ==
    [][\A r \in Req :
         (/\ pc[r] = "unlink_input" /\ pc'[r] # pc[r]
          /\ tmp_wav_path[r] # NoName /\ fs[tmp_wav_path[r]].exists) =>
             pc'[r] = "unlink_wav"
      ]_vars

\* The four input errors of the ingestion.
InputErrors ==
    {<<"No file provided">>,
     <<"No audio_data provided in JSON">>,
     <<"Invalid content type. Use multipart/form-data or application/json">>}
    \cup {<<"Invalid base64 audio data: ", t>> : t \in {"str", "nonascii", "array"}}

\* C16: a /transcribe request the ingestion rejects with one of its four
\* input errors fails at once: it is answered in the step that rejects it,
\* no file is created, changed or deleted, and neither the tool nor a
\* backend is called for it.
C16_RejectedRequestTouchesNothing ==
    [][\A r \in Req :
         (/\ pc'[r] = "done" /\ pc[r] # "done"
          /\ req'[r].route = "/transcribe"
          /\ resp'[r].status = 400) =>
             /\ pc[r] = "idle"
             /\ resp'[r].body.keys = {"error"}
             /\ resp'[r].body.error \in InputErrors
             /\ fs' = fs
             /\ ArtifactsOf(r)' = {}
             /\ calls'[r] = NoCalls
             /\ result'[r] = NoCompleted /\ response'[r] = NoReply
      ]_vars

\* A request rejected for its base64 data.
C16_Witness ==
    \E r \in Req :
        /\ Transcribed(r)
        /\ resp[r].status = 400
        /\ resp[r].body.error[1] = "Invalid base64 audio data: "
        /\ calls[r] = NoCalls

\* The artifacts of request r on disk, by kind.
RawArtifactsOf(r) == {n \in ArtifactsOf(r) : n[1] \in {".tmp", ".aac"}}
WavArtifactsOf(r) == {n \in ArtifactsOf(r) : n[1] = ".wav"}

\* C17: a /transcribe request that passed ingestion creates exactly one raw
\* artifact and then at most one output artifact: it never owns more than
\* one of either kind, it owns its raw artifact from the end of ingestion
\* to the cleanup, it takes a name for a file only twice, for the raw one
\* when ingestion accepts the request and for the output one just before
\* the conversion, and it creates no file under another name.
C17_OneRawAndAtMostOneOutputArtifact ==
    [][\A r \in Req :
         /\ Cardinality(RawArtifactsOf(r)') <= 1
         /\ Cardinality(WavArtifactsOf(r)') <= 1
         /\ pc'[r] \in {"save", "alloc", "convert", "post", "unlink_input"} =>
               RawArtifactsOf(r)' = {tmp_input'[r]}
         /\ pc'[r] \in {"idle", "save", "alloc"} => WavArtifactsOf(r)' = {}
         /\ (tmp_input'[r] # tmp_input[r] /\ pc'[r] # "done") =>
               (pc[r] = "idle" /\ pc'[r] = "save")
         /\ (tmp_wav_path'[r] # tmp_wav_path[r] /\ pc'[r] # "done") =>
               (pc[r] = "alloc" /\ pc'[r] = "convert" /\ RawArtifactsOf(r) # {})
         /\ pc'[r] # "done" =>
               ArtifactsOf(r)' \subseteq {tmp_input'[r], tmp_wav_path'[r]}
      ]_vars

\* A request that owns its two artifacts, one of each kind.
C17_Witness ==
    \E r \in Req :
        /\ pc[r] = "post"
        /\ Cardinality(RawArtifactsOf(r)) = 1
        /\ Cardinality(WavArtifactsOf(r)) = 1

\* Request q runs one of the deletions of its cleanup in this step.
Unlinks(q) == pc[q] \in {"unlink_input", "unlink_wav"} /\ pc'[q] # pc[q]

\* The names request r holds before its cleanup: its artifacts in use.
InUse(r) ==
    IF pc[r] \in {"save", "alloc", "convert", "post"}
    THEN {tmp_input[r], tmp_wav_path[r]} \ {NoName}
    ELSE {}

\* C18: each artifact moves only forward through created, in use, deleted:
\* the output the tool writes and the backend upload reads is on disk when
\* they use it, no deletion of the cleanup removes a file a request still
\* uses before its conversion and its backend call are over, and once the
\* request has deleted an artifact it runs no tool, calls no backend and
\* writes no file.
C18_ArtifactsMoveOnlyForward ==
    [][\A r \in Req :
         /\ (pc[r] = "convert" /\ pc'[r] # pc[r]) =>
               (fs[tmp_input_path[r]].exists /\ fs[tmp_wav_path[r]].exists)
         /\ calls'[r].whisper # calls[r].whisper => fs[tmp_wav_path[r]].exists
         /\ \A q \in Req : \A n \in InUse(r) :
               (Unlinks(q) /\ fs[n].exists) => fs'[n].exists
         /\ (pc[r] \in {"unlink_wav", "done"} /\ pc'[r] # pc[r]) =>
               /\ calls'[r] = calls[r]
               /\ \A n \in Names : fs'[n].exists => fs'[n] = fs[n]
      ]_vars

====
